---- MODULE Spec2Model ----
(***************************************************************************)
(* Model of the weather MCP demo: the stdio JSON-RPC client                *)
(* (src/mcp-client/client.py, class MCPClient) and the server's tool       *)
(* dispatcher (src/weather/weather.py, handle_call_tool + WeatherService). *)
(*                                                                         *)
(* Spec     : the client.  Coroutines (Tasks) call the public operations   *)
(*            of one MCPClient instance; the awaits are the points where   *)
(*            another coroutine may run.  The server process is the        *)
(*            environment: it answers the Requests on its stdin in order   *)
(*            with a line of its choosing, or closes its stdout.           *)
(* WeatherClientSpec : the same client driven through WeatherClient, whose  *)
(*            three methods wrap call_tool in a try/except and read the    *)
(*            result payload.                                              *)
(* ToolSpec : one handle_call_tool invocation after another, the upstream  *)
(*            HTTP endpoints being the environment.                        *)
(***************************************************************************)
EXTENDS Integers, Sequences, FiniteSets, TLC

(* ------------------------------ bounds --------------------------------- *)
NumTasks == 2          \* coroutines sharing the MCPClient instance
MaxRequests == 3       \* cap on request_id (the counter is unbounded in the code)
MaxStarts == 1         \* cap on the number of subprocesses start_server creates

Tasks == 1..NumTasks
Procs == 1..MaxStarts

NoProcess == 0         \* self.process is None
NoTask == 0            \* StreamReader._waiter is None

VARIABLES
    process,      \* self.process: NoProcess or the index of the current subprocess
    request_id,   \* self.request_id
    started,      \* number of subprocesses created so far
    pc,           \* per task: where the coroutine is suspended
    op,           \* per task: the public operation it is in
    req,          \* per task: the Request its operation built
    resp,         \* per task: the line its _send_request read (or NoLine)
    sent,         \* per task: the messages its operation has written so far
    finished,     \* the operation that ended last: its task, Request, line and outcome
    built,        \* history: the id of every Request built, in order
    stdin,        \* per subprocess: the messages written to its stdin, in order
    stdout,       \* per subprocess: lines written by the server and not yet read
    served,       \* per subprocess: how many Requests of stdin the server answered
    eof,          \* per subprocess: the server closed its stdout
    terminated,   \* per subprocess: close() sent it SIGTERM
    waiter,       \* per subprocess: the task suspended in stdout.readline()
    target,       \* per task: the subprocess whose stream or exit it awaits
    tool          \* the state of the server's handle_call_tool invocation

vars == <<process, request_id, started, pc, op, req, resp, sent, finished, built,
          stdin, stdout, served, eof, terminated, waiter, target, tool>>

clientVars == <<process, request_id, started, pc, op, req, resp, sent, finished,
                built, stdin, stdout, served, eof, terminated, waiter, target>>

(* ----------------------------- messages -------------------------------- *)
NoRequest == [type |-> "none", id |-> 0, method |-> "none"]
NoLine == [kind |-> "none", id |-> 0, result |-> "none", error |-> "none", raw |-> "none"]

\* client.py 46-60, 75-79, 86-94: a Request carries the id handed out by
\* _get_request_id and the method name
Request(id, method) == [type |-> "request", id |-> id, method |-> method]

\* client.py 66-69: the initialized Notification has no "id" key
initialized_notification == [type |-> "notification", method |-> "notifications/initialized"]

HasId(m) == "id" \in DOMAIN m

ErrorObjects == {"Method not found"}
RawLines == {"not json"}

\* What a server puts in "result" for each method (weather.py 86-139 for
\* tools/list; a content list for tools/call)
ServerResult(method) ==
    CASE method = "tools/list" -> "tools"
      [] method = "tools/call" -> "content"
      [] OTHER -> "capabilities"

\* The lines a server may write in answer to Request r: a result (carrying
\* r's id, or another id), an error object, or a line that is not JSON
ServerLines(r) ==
    {[kind |-> "result", id |-> i, result |-> ServerResult(r.method), error |-> "none", raw |-> "json"]
        : i \in {r.id, r.id + 1}}
    \cup {[kind |-> "error", id |-> r.id, result |-> "none", error |-> e, raw |-> "json"]
        : e \in ErrorObjects}
    \cup {[kind |-> "malformed", id |-> 0, result |-> "none", error |-> "none", raw |-> w]
        : w \in RawLines}

\* client.py 86-94: the Request call_tool builds, with the params a
\* WeatherClient method passes (158, 172-175, 188)
CallToolRequest(id, name, arguments) ==
    [type |-> "request", id |-> id, method |-> "tools/call",
     params |-> [name |-> name, arguments |-> arguments]]

\* JSON values as WeatherClient tests them: null (Python None) or an object
JsonNull == [json |-> "null"]
JsonObject(members) == [json |-> "object", members |-> members]

\* What response.get("result") may be for a tools/call Response: a content
\* list whose first item has a text, one whose first item has none, an empty
\* content list, an object without "content", an empty object, or None when
\* the Response has no "result" key
ToolCallResults ==
    {JsonObject([content |-> <<[type |-> "text", text |-> <<"Location: Bangkok, Thailand">>]>>]),
     JsonObject([content |-> <<[type |-> "image", data |-> "iVBORw0KGgo="]>>]),
     JsonObject([content |-> <<>>]),
     JsonObject([isError |-> TRUE]),
     JsonObject(<<>>),
     JsonNull}

InitializeResult == JsonObject([protocolVersion |-> "2024-11-05"])

\* The lines a server may write in answer to Request r of a WeatherClient
WeatherServerLines(r) ==
    {[kind |-> "result", id |-> r.id, result |-> v, error |-> "none", raw |-> "json"]
        : v \in IF r.method = "tools/call" THEN ToolCallResults ELSE {InitializeResult}}
    \cup {[kind |-> "error", id |-> r.id, result |-> "none", error |-> e, raw |-> "json"]
        : e \in ErrorObjects}
    \cup {[kind |-> "malformed", id |-> 0, result |-> "none", error |-> "none", raw |-> w]
        : w \in RawLines}

(* ------------------------- outcomes of operations ---------------------- *)
NoOutcome == [kind |-> "none", value |-> "none", msg |-> <<>>]
Return(v) == [kind |-> "return", value |-> v, msg |-> <<>>]
Raise(m) == [kind |-> "raise", value |-> "none", msg |-> m]

ServerNotStarted == <<"Server not started">>
ServerClosedConnection == <<"Server closed connection">>
ServerError(e) == <<"Server error: ", e>>
\* str(json.JSONDecodeError): message and position, not the document
JSONDecodeErrorText(raw) == "Expecting value: line 1 column 1 (char 0)"
InvalidServerResponse(raw) == <<"Invalid server response: ", JSONDecodeErrorText(raw)>>
\* asyncio.StreamReader._wait_for_data with a waiter already set
AlreadyWaiting == <<"readuntil() called while another coroutine is already waiting for incoming data">>
ConnectionLost == <<"Connection lost">>
SpawnFailed == <<"create_subprocess_exec failed">>

EofLine == [kind |-> "eof", id |-> 0, result |-> "none", error |-> "none", raw |-> ""]

\* _send_request without the test for "error" in the response
SendRequestResult_error_returned(line) ==
    IF line.kind = "eof" THEN Raise(ServerClosedConnection)
    ELSE IF line.kind = "malformed" THEN Raise(InvalidServerResponse(line.raw))
    ELSE Return(line)

\* _send_request without the test for an empty read: json.loads("") fails
SendRequestResult_no_eof_test(line) ==
    IF line.kind \in {"eof", "malformed"} THEN Raise(InvalidServerResponse(line.raw))
    ELSE IF line.kind = "error" THEN Raise(ServerError(line.error))
    ELSE Return(line)

\* client.py 111-123: what _send_request does with the line it read (EofLine
\* stands for the empty read of a closed stream)
SendRequestResult(line) ==
    IF line.kind = "eof" THEN Raise(ServerClosedConnection)
    ELSE IF line.kind = "malformed" THEN Raise(InvalidServerResponse(line.raw))
    ELSE IF line.kind = "error" THEN Raise(ServerError(line.error))
    ELSE Return(line)

\* client.py 156, 169, 185: the WeatherClient methods that wrap call_tool
WeatherClientOps == {"get_current_weather", "get_weather_forecast", "search_location"}

\* client.py 82 and 97: what list_tools / call_tool return from the response;
\* initialize (62-71) and start_server return None
OperationValue(o, line) ==
    CASE o = "list_tools" -> IF line.result = "tools" THEN "tools" ELSE "[]"
      [] o \in {"call_tool"} \cup WeatherClientOps -> line.result
      [] OTHER -> "None"

\* client.py 163, 179, 192: the text of the else branch
NoDataText(o, location) ==
    CASE o = "get_current_weather" -> <<"No weather data available for ", location>>
      [] o = "get_weather_forecast" -> <<"No forecast data available for ", location>>
      [] OTHER -> <<"Location '", location, "' not found">>

\* client.py 167, 183, 196: the text of the except clause; str is str(e)
ErrorText(o, location, str) ==
    CASE o = "get_current_weather" -> <<"Error getting weather for ", location, ": ">> \o str
      [] o = "get_weather_forecast" -> <<"Error getting forecast for ", location, ": ">> \o str
      [] OTHER -> <<"Error searching for ", location, ": ">> \o str

\* client.py 160, 176, 189: "result and 'content' in result" (None and the
\* empty dict are false)
HasContent(result) ==
    /\ result.json = "object"
    /\ DOMAIN result.members # {}
    /\ "content" \in DOMAIN result.members

\* A WeatherClient method whose try block covers only the await of call_tool
WeatherClientReturn_index_outside_try(o, location, out) ==
    IF out.kind = "raise" THEN Return(ErrorText(o, location, out.msg))
    ELSE IF HasContent(out.value)
    THEN LET content == out.value.members.content IN
         IF content = <<>> THEN Raise(<<"list index out of range">>)
         ELSE IF "text" \notin DOMAIN content[1] THEN Raise(<<"'text'">>)
         ELSE Return(content[1].text)
    ELSE Return(NoDataText(o, location))

\* client.py 156-167, 169-183, 185-196: what the WeatherClient method o makes
\* of the outcome out of its call_tool: the first content item's text, the
\* "no data" text, or the text of the except clause (which also catches the
\* IndexError and KeyError of result["content"][0]["text"])
WeatherClientReturn(o, location, out) ==
    IF out.kind = "raise" THEN Return(ErrorText(o, location, out.msg))
    ELSE IF HasContent(out.value)
    THEN LET content == out.value.members.content IN
         IF content = <<>> THEN Return(ErrorText(o, location, <<"list index out of range">>))
         ELSE IF "text" \notin DOMAIN content[1] THEN Return(ErrorText(o, location, <<"'text'">>))
         ELSE Return(content[1].text)
    ELSE Return(NoDataText(o, location))

\* The outcome the caller of operation o sees: a WeatherClient method hands
\* on what its try/except makes of call_tool's outcome
Delivered(o, r, out) ==
    IF o \in WeatherClientOps
    THEN WeatherClientReturn(o, r.params.arguments.location, out)
    ELSE out

\* No operation has ended yet
NoOperation == [task |-> NoTask, op |-> "none", req |-> NoRequest, resp |-> NoLine,
                sent |-> <<>>, outcome |-> NoOutcome]

(* ------------------------------- Init ---------------------------------- *)
NoResponse == [kind |-> "none"]
NoResult == [kind |-> "none", content |-> <<>>]
ToolIdle == [hpc |-> "idle", name |-> "none", arguments |-> <<>>, location |-> "",
             days |-> 0, calls |-> <<>>, geo |-> NoResponse, coords |-> <<>>,
             fetched |-> NoResponse, result |-> NoResult]

Init ==
    /\ process = NoProcess
    /\ request_id = 0
    /\ started = 0
    /\ pc = [t \in Tasks |-> "idle"]
    /\ op = [t \in Tasks |-> "none"]
    /\ req = [t \in Tasks |-> NoRequest]
    /\ resp = [t \in Tasks |-> NoLine]
    /\ sent = [t \in Tasks |-> <<>>]
    /\ finished = NoOperation
    /\ built = <<>>
    /\ stdin = [p \in Procs |-> <<>>]
    /\ stdout = [p \in Procs |-> <<>>]
    /\ served = [p \in Procs |-> 0]
    /\ eof = [p \in Procs |-> FALSE]
    /\ terminated = [p \in Procs |-> FALSE]
    /\ waiter = [p \in Procs |-> NoTask]
    /\ target = [t \in Tasks |-> NoProcess]
    /\ tool = ToolIdle

(* --------------------------- client helpers ---------------------------- *)
\* _get_request_id returning the counter's value from before the increment
get_request_id_post_increment ==
    [request_id |-> request_id + 1, result |-> request_id]

\* client.py 134-137: _get_request_id increments the counter, then returns it
\* (request_id: the counter afterwards; result: the id returned)
_get_request_id ==
    LET incremented == request_id + 1
    IN [request_id |-> incremented, result |-> incremented]

\* client.py 101 and 128: "if not self.process"
ProcessStarted(p) == p # NoProcess

Requests(p) == SelectSeq(stdin[p], LAMBDA m : m.type = "request")

\* The operation o of task t, which built Request r, read line and wrote the
\* messages s, ends with outcome out: the coroutine's frame is gone
Finish(t, o, r, line, s, out) ==
    /\ finished' = [task |-> t, op |-> o, req |-> r, resp |-> line, sent |-> s,
                    outcome |-> Delivered(o, r, out)]
    /\ pc' = [pc EXCEPT ![t] = "idle"]
    /\ op' = [op EXCEPT ![t] = "none"]
    /\ req' = [req EXCEPT ![t] = NoRequest]
    /\ resp' = [resp EXCEPT ![t] = NoLine]
    /\ sent' = [sent EXCEPT ![t] = <<>>]
    /\ target' = [target EXCEPT ![t] = NoProcess]

\* The operation of task t ends with outcome out, nothing more read or written
FinishNow(t, out) == Finish(t, op[t], req[t], resp[t], sent[t], out)

\* client.py 46-62, 75-81, 86-96 then 99-107: the operation takes the next id,
\* builds its Request and enters _send_request, which raises when there is no
\* process and otherwise writes the Request and awaits drain.  p is the value
\* of self.process at that moment.
SendRequest(t, o, method, p) ==
    LET got == _get_request_id
        r == Request(got.result, method)
    IN
    /\ request_id' = got.request_id
    /\ built' = Append(built, r.id)
    /\ IF ProcessStarted(p)
       THEN /\ stdin' = [stdin EXCEPT ![p] = Append(@, r)]
            /\ op' = [op EXCEPT ![t] = o]
            /\ req' = [req EXCEPT ![t] = r]
            /\ sent' = [sent EXCEPT ![t] = <<r>>]
            /\ pc' = [pc EXCEPT ![t] = "drain"]
            /\ target' = [target EXCEPT ![t] = p]
            /\ UNCHANGED <<resp, finished>>
       ELSE /\ stdin' = stdin
            /\ Finish(t, o, r, NoLine, <<>>, Raise(ServerNotStarted))

\* client.py 86-96 then 99-107, entered from a WeatherClient method o: call_tool
\* takes the next id, builds the tools/call Request with its params and enters
\* _send_request, as SendRequest does
SendToolCall(t, o, arguments, p) ==
    LET got == _get_request_id
        r == CallToolRequest(got.result, o, arguments)
    IN
    /\ request_id' = got.request_id
    /\ built' = Append(built, r.id)
    /\ IF ProcessStarted(p)
       THEN /\ stdin' = [stdin EXCEPT ![p] = Append(@, r)]
            /\ op' = [op EXCEPT ![t] = o]
            /\ req' = [req EXCEPT ![t] = r]
            /\ sent' = [sent EXCEPT ![t] = <<r>>]
            /\ pc' = [pc EXCEPT ![t] = "drain"]
            /\ target' = [target EXCEPT ![t] = p]
            /\ UNCHANGED <<resp, finished>>
       ELSE /\ stdin' = stdin
            /\ Finish(t, o, r, NoLine, <<>>, Raise(ServerNotStarted))

(* ------------------------- client operations --------------------------- *)
\* client.py 44-62: initialize, up to the await in _send_request
Initialize(t) ==
    /\ pc[t] = "idle"
    /\ request_id < MaxRequests
    /\ SendRequest(t, "initialize", "initialize", process)
    /\ UNCHANGED <<process, started, stdout, served, eof, terminated, waiter, tool>>

\* client.py 73-81
ListTools(t) ==
    /\ pc[t] = "idle"
    /\ request_id < MaxRequests
    /\ SendRequest(t, "list_tools", "tools/list", process)
    /\ UNCHANGED <<process, started, stdout, served, eof, terminated, waiter, tool>>

\* client.py 84-96
CallTool(t) ==
    /\ pc[t] = "idle"
    /\ request_id < MaxRequests
    /\ SendRequest(t, "call_tool", "tools/call", process)
    /\ UNCHANGED <<process, started, stdout, served, eof, terminated, waiter, tool>>

\* client.py 156-158: WeatherClient.get_current_weather, up to the await in
\* _send_request
GetCurrentWeather(t, location) ==
    /\ pc[t] = "idle"
    /\ request_id < MaxRequests
    /\ SendToolCall(t, "get_current_weather", [location |-> location], process)
    /\ UNCHANGED <<process, started, stdout, served, eof, terminated, waiter, tool>>

\* client.py 169-175: WeatherClient.get_weather_forecast
GetWeatherForecast(t, location, days) ==
    /\ pc[t] = "idle"
    /\ request_id < MaxRequests
    /\ SendToolCall(t, "get_weather_forecast", [location |-> location, days |-> days], process)
    /\ UNCHANGED <<process, started, stdout, served, eof, terminated, waiter, tool>>

\* client.py 185-188: WeatherClient.search_location
SearchLocation(t, location) ==
    /\ pc[t] = "idle"
    /\ request_id < MaxRequests
    /\ SendToolCall(t, "search_location", [location |-> location], process)
    /\ UNCHANGED <<process, started, stdout, served, eof, terminated, waiter, tool>>

\* client.py 26-34: start_server awaits create_subprocess_exec
StartServer(t) ==
    /\ pc[t] = "idle"
    /\ started < MaxStarts
    /\ request_id < MaxRequests
    /\ started' = started + 1
    /\ pc' = [pc EXCEPT ![t] = "creating"]
    /\ op' = [op EXCEPT ![t] = "start_server"]
    /\ target' = [target EXCEPT ![t] = started + 1]
    /\ UNCHANGED <<process, request_id, req, resp, sent, finished, built, stdin, stdout,
                   served, eof, terminated, waiter, tool>>

\* client.py 29-38: the subprocess exists; self.process is assigned and
\* initialize runs up to its first await with no suspension in between
SpawnDone(t) ==
    /\ pc[t] = "creating"
    /\ request_id < MaxRequests
    /\ process' = target[t]
    /\ SendRequest(t, "start_server", "initialize", target[t])
    /\ UNCHANGED <<started, stdout, served, eof, terminated, waiter, tool>>

\* client.py 40-42: create_subprocess_exec raised; logged and re-raised
SpawnFail(t) ==
    /\ pc[t] = "creating"
    /\ FinishNow(t, Raise(SpawnFailed))
    /\ UNCHANGED <<process, request_id, started, built, stdin, stdout, served, eof,
                   terminated, waiter, tool>>

\* client.py 107: drain() returns
Drain(t) ==
    /\ pc[t] = "drain"
    /\ pc' = [pc EXCEPT ![t] = "readline"]
    /\ UNCHANGED <<process, request_id, started, op, req, resp, sent, finished, built,
                   stdin, stdout, served, eof, terminated, waiter, target, tool>>

\* client.py 107: drain() raises because the pipe to a dead server broke
DrainFail(t) ==
    /\ pc[t] = "drain"
    /\ eof[target[t]]
    /\ FinishNow(t, Raise(ConnectionLost))
    /\ UNCHANGED <<process, request_id, started, built, stdin, stdout, served, eof,
                   terminated, waiter, tool>>

\* client.py 111-123 and the caller's continuation (62-71, 82, 97): the
\* operation of task t goes on with the line _send_request read; initialize
\* goes on into _send_notification (125-132), which writes the Notification
\* (process is set: it never goes back to None) and awaits drain
Continue(t, line) ==
    LET r == SendRequestResult(line) IN
    IF r.kind = "raise"
    THEN /\ Finish(t, op[t], req[t], line, sent[t], r)
         /\ stdin' = stdin
    ELSE IF op[t] \in {"initialize", "start_server"}
    THEN IF ProcessStarted(process)
         THEN /\ stdin' = [stdin EXCEPT ![process] = Append(@, initialized_notification)]
              /\ sent' = [sent EXCEPT ![t] = Append(@, initialized_notification)]
              /\ resp' = [resp EXCEPT ![t] = line]
              /\ pc' = [pc EXCEPT ![t] = "ndrain"]
              /\ target' = [target EXCEPT ![t] = process]
              /\ UNCHANGED <<op, req, finished>>
         ELSE /\ Finish(t, op[t], req[t], line, sent[t], Raise(ServerNotStarted))
              /\ stdin' = stdin
    ELSE /\ Finish(t, op[t], req[t], line, sent[t], Return(OperationValue(op[t], line)))
         /\ stdin' = stdin

\* client.py 110: readline() finds a complete line in the reader's buffer
ReadLineData(t) ==
    /\ pc[t] = "readline"
    /\ stdout[process] # <<>>
    /\ stdout' = [stdout EXCEPT ![process] = Tail(@)]
    /\ Continue(t, Head(stdout[process]))
    /\ UNCHANGED <<process, request_id, started, built, served, eof, terminated,
                   waiter, tool>>

\* client.py 110-112: the buffer is empty and the stream is at EOF
ReadLineEof(t) ==
    /\ pc[t] = "readline"
    /\ stdout[process] = <<>>
    /\ eof[process]
    /\ Continue(t, EofLine)
    /\ UNCHANGED <<process, request_id, started, built, stdout, served, eof,
                   terminated, waiter, tool>>

\* client.py 110: no data yet; the coroutine becomes the reader's waiter
ReadLineWait(t) ==
    /\ pc[t] = "readline"
    /\ stdout[process] = <<>>
    /\ ~eof[process]
    /\ waiter[process] = NoTask
    /\ waiter' = [waiter EXCEPT ![process] = t]
    /\ pc' = [pc EXCEPT ![t] = "waiting"]
    /\ target' = [target EXCEPT ![t] = process]
    /\ UNCHANGED <<process, request_id, started, op, req, resp, sent, finished, built,
                   stdin, stdout, served, eof, terminated, tool>>

\* client.py 110: no data yet and another coroutine already waits on the
\* same StreamReader: asyncio raises RuntimeError out of readline()
ReadLineBusy(t) ==
    /\ pc[t] = "readline"
    /\ stdout[process] = <<>>
    /\ ~eof[process]
    /\ waiter[process] # NoTask
    /\ FinishNow(t, Raise(AlreadyWaiting))
    /\ UNCHANGED <<process, request_id, started, built, stdin, stdout, served, eof,
                   terminated, waiter, tool>>

\* client.py 132: the Notification's drain() returns; nothing is read
NotifyDrain(t) ==
    /\ pc[t] = "ndrain"
    /\ FinishNow(t, Return("None"))
    /\ UNCHANGED <<process, request_id, started, built, stdin, stdout, served, eof,
                   terminated, waiter, tool>>

\* client.py 132: the Notification's drain() raises on a broken pipe
NotifyDrainFail(t) ==
    /\ pc[t] = "ndrain"
    /\ eof[target[t]]
    /\ FinishNow(t, Raise(ConnectionLost))
    /\ UNCHANGED <<process, request_id, started, built, stdin, stdout, served, eof,
                   terminated, waiter, tool>>

\* client.py 139-142: close() terminates the process, if any, and awaits its exit
Close(t) ==
    /\ pc[t] = "idle"
    /\ IF ProcessStarted(process)
       THEN /\ terminated' = [terminated EXCEPT ![process] = TRUE]
            /\ pc' = [pc EXCEPT ![t] = "wait"]
            /\ op' = [op EXCEPT ![t] = "close"]
            /\ target' = [target EXCEPT ![t] = process]
            /\ UNCHANGED <<req, resp, sent, finished>>
       ELSE /\ terminated' = terminated
            /\ Finish(t, "close", NoRequest, NoLine, <<>>, Return("None"))
    /\ UNCHANGED <<process, request_id, started, built, stdin, stdout, served,
                   eof, waiter, tool>>

\* client.py 143-144: the process has exited
CloseWait(t) ==
    /\ pc[t] = "wait"
    /\ eof[target[t]]
    /\ FinishNow(t, Return("None"))
    /\ UNCHANGED <<process, request_id, started, built, stdin, stdout, served, eof,
                   terminated, waiter, tool>>

(* ---------------------- the server process (environment) --------------- *)
\* Data arrives on the client's StreamReader: the waiter, if any, is woken
\* and will look at the buffer again when it next runs
Wake(p) ==
    /\ waiter' = [waiter EXCEPT ![p] = NoTask]
    /\ pc' = [t \in Tasks |-> IF t = waiter[p] THEN "readline" ELSE pc[t]]

\* client.py 29-38: the subprocess exists once start_server has written the
\* initialize Request to it
Spawned(p) == stdin[p] # <<>>

\* The server answers the oldest unanswered Request with one line
ServerRespond(p) ==
    /\ Spawned(p)
    /\ ~eof[p]
    /\ ~terminated[p]
    /\ served[p] < Len(Requests(p))
    /\ \E line \in ServerLines(Requests(p)[served[p] + 1]) :
           stdout' = [stdout EXCEPT ![p] = Append(@, line)]
    /\ served' = [served EXCEPT ![p] = @ + 1]
    /\ Wake(p)
    /\ UNCHANGED <<process, request_id, started, op, req, resp, sent, finished, built,
                   stdin, eof, terminated, target, tool>>

\* The server of a WeatherClient answers the oldest unanswered Request
WeatherServerRespond(p) ==
    /\ Spawned(p)
    /\ ~eof[p]
    /\ ~terminated[p]
    /\ served[p] < Len(Requests(p))
    /\ \E line \in WeatherServerLines(Requests(p)[served[p] + 1]) :
           stdout' = [stdout EXCEPT ![p] = Append(@, line)]
    /\ served' = [served EXCEPT ![p] = @ + 1]
    /\ Wake(p)
    /\ UNCHANGED <<process, request_id, started, op, req, resp, sent, finished, built,
                   stdin, eof, terminated, target, tool>>

\* The server exits (on its own, or after SIGTERM): its stdout reaches EOF
ServerClose(p) ==
    /\ Spawned(p)
    /\ ~eof[p]
    /\ eof' = [eof EXCEPT ![p] = TRUE]
    /\ Wake(p)
    /\ UNCHANGED <<process, request_id, started, op, req, resp, sent, finished, built,
                   stdin, stdout, served, terminated, target, tool>>

Next ==
    \/ \E t \in Tasks : Initialize(t)
    \/ \E t \in Tasks : ListTools(t)
    \/ \E t \in Tasks : CallTool(t)
    \/ \E t \in Tasks : StartServer(t)
    \/ \E t \in Tasks : SpawnDone(t)
    \/ \E t \in Tasks : SpawnFail(t)
    \/ \E t \in Tasks : Drain(t)
    \/ \E t \in Tasks : DrainFail(t)
    \/ \E t \in Tasks : ReadLineData(t)
    \/ \E t \in Tasks : ReadLineEof(t)
    \/ \E t \in Tasks : ReadLineWait(t)
    \/ \E t \in Tasks : ReadLineBusy(t)
    \/ \E t \in Tasks : NotifyDrain(t)
    \/ \E t \in Tasks : NotifyDrainFail(t)
    \/ \E t \in Tasks : Close(t)
    \/ \E t \in Tasks : CloseWait(t)
    \/ \E p \in Procs : ServerRespond(p)
    \/ \E p \in Procs : ServerClose(p)

Spec == Init /\ [][Next]_vars

\* The locations and day counts the callers of a WeatherClient pass
ClientLocations == {"Bangkok"}
ClientDays == {7}

\* client.py 146-209: coroutines calling the methods of one WeatherClient
\* (start is start_server and close is close of its MCPClient)
WeatherClientNext ==
    \/ \E t \in Tasks, location \in ClientLocations : GetCurrentWeather(t, location)
    \/ \E t \in Tasks, location \in ClientLocations, days \in ClientDays :
          GetWeatherForecast(t, location, days)
    \/ \E t \in Tasks, location \in ClientLocations : SearchLocation(t, location)
    \/ \E t \in Tasks : StartServer(t)
    \/ \E t \in Tasks : SpawnDone(t)
    \/ \E t \in Tasks : SpawnFail(t)
    \/ \E t \in Tasks : Drain(t)
    \/ \E t \in Tasks : DrainFail(t)
    \/ \E t \in Tasks : ReadLineData(t)
    \/ \E t \in Tasks : ReadLineEof(t)
    \/ \E t \in Tasks : ReadLineWait(t)
    \/ \E t \in Tasks : ReadLineBusy(t)
    \/ \E t \in Tasks : NotifyDrain(t)
    \/ \E t \in Tasks : NotifyDrainFail(t)
    \/ \E t \in Tasks : Close(t)
    \/ \E t \in Tasks : CloseWait(t)
    \/ \E p \in Procs : WeatherServerRespond(p)
    \/ \E p \in Procs : ServerClose(p)

WeatherClientSpec == Init /\ [][WeatherClientNext]_vars

(***************************************************************************)
(* Properties of the client (checked under Spec)                           *)
(***************************************************************************)
InitOps == {"initialize", "start_server"}
RequestOps == {"initialize", "start_server", "list_tools", "call_tool"}

\* The tasks whose Request is written and whose response line is not yet read
Outstanding == {t \in Tasks : pc[t] \in {"drain", "readline", "waiting"}}

Notifications(s) == SelectSeq(s, LAMBDA m : m.type = "notification")
RequestsOf(s) == SelectSeq(s, LAMBDA m : m.type = "request")

\* C1: the Response _send_request hands back carries the id of the Request it
\* wrote; a line with another id is never accepted as that Request's Response.
C1_ResponseIdEqualsRequestId ==
    /\ \A t \in Tasks : resp[t].kind = "result" => resp[t].id = req[t].id
    /\ (finished.outcome.kind = "return" /\ finished.resp.kind = "result")
          => finished.resp.id = finished.req.id

\* C2: the ids of the Requests built are 1, 2, 3, ... in the order built (so
\* strictly increasing from 1 and never reused), whether the operations
\* succeeded or failed, and the counter is the number of Requests built so far
\* (0 at the start, one more per Request).
C2_RequestIdsIncreaseFromOne ==
    /\ request_id = Len(built)
    /\ \A i \in 1..Len(built) : built[i] = i
    /\ \A t \in Tasks : req[t] # NoRequest => req[t].id \in 1..request_id
    /\ \A t, u \in Tasks : (t # u /\ req[t] # NoRequest /\ req[u] # NoRequest)
                              => req[t].id # req[u].id

\* C2 witness: three Requests were built, the first by an operation that failed
\* before the server was started, the last by a call_tool that returned.
C2_Witness ==
    /\ built = <<1, 2, 3>>
    /\ Len(Requests(1)) = 2
    /\ finished.op = "call_tool"
    /\ finished.req.id = 3
    /\ finished.outcome.kind = "return"

\* C3: at most one Request is outstanding on the transport at any moment.
C3_AtMostOneOutstanding == Cardinality(Outstanding) <= 1

\* C4: an operation on a client that was not started fails with "Server not
\* started" and writes nothing, and in each session initialize is the first
\* Request and is sent exactly once.
C4_InitializeOnceAndFirst ==
    /\ finished.outcome = Raise(ServerNotStarted) => finished.sent = <<>>
    /\ process = NoProcess => \A p \in Procs : stdin[p] = <<>>
    /\ \A p \in Procs :
          LET rs == Requests(p) IN
          /\ Len(rs) > 0 => rs[1].method = "initialize"
          /\ Cardinality({i \in 1..Len(rs) : rs[i].method = "initialize"}) <= 1

\* What C5 says of an operation that built Request r, read line, wrote the
\* messages s and stands at position at (or has ended with outcome out)
C5_Holds(o, r, line, s, at, out) ==
    /\ Notifications(s) # <<>> =>
          /\ o \in InitOps
          /\ r.method = "initialize"
          /\ s = <<r, initialized_notification>>
          /\ line.kind = "result"
          /\ at \in {"ndrain", "idle"}
    /\ (o \in InitOps /\ line.kind \in {"error", "eof", "malformed"}) =>
          /\ out.kind = "raise"
          /\ Notifications(s) = <<>>

\* C5: initialize writes the initialized Notification only after it wrote the
\* initialize Request and read a Response without an error object; when the
\* Response carries an error, the stream is closed or the line is malformed,
\* initialize fails and writes no Notification.  The Notification carries no
\* id, and once it is written the operation reads nothing more.
C5_NotificationOnlyAfterCleanResponse ==
    /\ \A t \in Tasks : C5_Holds(op[t], req[t], resp[t], sent[t], pc[t], NoOutcome)
    /\ \A t \in Tasks : resp[t].kind \in {"error", "eof", "malformed"} => pc[t] = "idle"
    /\ C5_Holds(finished.op, finished.req, finished.resp, finished.sent, "idle",
                finished.outcome)
    /\ \A p \in Procs : \A i \in 1..Len(stdin[p]) :
          stdin[p][i].type = "notification" => ~HasId(stdin[p][i])

\* C5 witness: one initialize failed on an error Response without writing the
\* Notification, and another has read a clean Response and written it.
C5_Witness ==
    /\ finished.op \in InitOps
    /\ finished.resp.kind = "error"
    /\ finished.outcome.kind = "raise"
    /\ \E t \in Tasks : pc[t] = "ndrain" /\ op[t] \in InitOps

\* C10: a Response line with an error object makes the operation fail with the
\* server-supplied error, and an empty read after the Request was written makes
\* it fail with the connection-closed failure; in both cases the operation
\* wrote its one Request and nothing else (no retry).
C10_ErrorAndClosedStreamFail ==
    /\ finished.resp.kind = "error" =>
          /\ finished.outcome = Raise(ServerError(finished.resp.error))
          /\ finished.sent = <<finished.req>>
    /\ finished.resp.kind = "eof" =>
          /\ finished.outcome = Raise(ServerClosedConnection)
          /\ finished.sent = <<finished.req>>
    /\ \A t \in Tasks :
          /\ resp[t].kind \notin {"error", "eof"}
          /\ Len(RequestsOf(sent[t])) <= 1

\* C10 witness: a call_tool read a line with an error object and failed.
C10_Witness ==
    /\ finished.op = "call_tool"
    /\ finished.resp.kind = "error"
    /\ finished.outcome = Raise(ServerError("Method not found"))
    /\ \E p \in Procs : Len(Requests(p)) = 2

\* The text m (a tuple of parts) has the part w
Includes(m, w) == \E i \in 1..Len(m) : m[i] = w

\* C11: when the line _send_request read is not well-formed JSON, the operation
\* fails with a protocol failure, and the failure raised to the caller includes
\* the raw offending line.
C11_MalformedLineFailureIncludesRawLine ==
    finished.resp.kind = "malformed" =>
        /\ finished.outcome.kind = "raise"
        /\ Includes(finished.outcome.msg, finished.resp.raw)

\* Where the Requests written to the transport stand: subprocess and position
WrittenAt ==
    UNION {{<<p, i>> : i \in {j \in 1..Len(stdin[p]) : stdin[p][j].type = "request"}}
              : p \in Procs}
WrittenIds == {stdin[w[1]][w[2]].id : w \in WrittenAt}

\* C13: the ids of the Requests written to the server's stdin are 1, 2, 3, ...
\* with no gaps: after any sequence of operations, those that failed with
\* "Server not started" before the start included, the request_id counter
\* equals the number of Requests written to the transport.
C13_CounterEqualsRequestsWritten ==
    /\ request_id = Cardinality(WrittenAt)
    /\ WrittenIds = 1..Cardinality(WrittenAt)

(***************************************************************************)
(* Properties of WeatherClient (checked under WeatherClientSpec)           *)
(***************************************************************************)
\* One of the three "Error ..." texts for the location, followed by what
\* went wrong
IsErrorText(text, location) ==
    /\ Len(text) >= 4
    /\ text[1] \in {"Error getting weather for ", "Error getting forecast for ",
                    "Error searching for "}
    /\ text[2] = location
    /\ text[3] = ": "

IsNoDataText(text, location) ==
    text \in {<<"No weather data available for ", location>>,
              <<"No forecast data available for ", location>>,
              <<"Location '", location, "' not found">>}

\* C14: get_current_weather, get_weather_forecast and search_location of
\* WeatherClient never propagate a failure: whatever the underlying call_tool
\* did (result with content, result with no or empty content, Response with
\* an error object, closed stream, malformed line, server not started) they
\* return a text, a failure of MCPClient becoming an "Error ..." text that
\* carries the failure's message.
C14_WeatherClientReturnsText ==
    finished.op \in WeatherClientOps =>
        LET location == finished.req.params.arguments.location
            line == finished.resp
            text == finished.outcome.value
        IN
        /\ finished.outcome.kind = "return"
        /\ line.kind \in {"none", "error", "eof", "malformed"} => IsErrorText(text, location)
        /\ (line.kind = "none" /\ finished.sent = <<>>) => text[4] = "Server not started"
        /\ line.kind = "error" => (text[4] = "Server error: " /\ text[5] = line.error)
        /\ line.kind = "eof" => text[4] = "Server closed connection"
        /\ line.kind = "malformed" => text[4] = "Invalid server response: "
        /\ line.kind = "result" =>
              IF line.result.json = "null" \/ "content" \notin DOMAIN line.result.members
              THEN IsNoDataText(text, location)
              ELSE IF line.result.members.content = <<>>
                      \/ "text" \notin DOMAIN line.result.members.content[1]
              THEN IsErrorText(text, location)
              ELSE text = line.result.members.content[1].text

\* C14 witness: a coroutine's get_current_weather read a malformed line and
\* returned the error text, and the same coroutine is in a later call of a
\* WeatherClient method whose Request is written.
C14_Witness ==
    /\ finished.op = "get_current_weather"
    /\ finished.resp.kind = "malformed"
    /\ finished.outcome = Return(<<"Error getting weather for ", "Bangkok", ": ",
                                   "Invalid server response: ",
                                   "Expecting value: line 1 column 1 (char 0)">>)
    /\ finished.task \in Tasks
    /\ op[finished.task] \in WeatherClientOps
    /\ req[finished.task].id > finished.req.id
    /\ pc[finished.task] = "readline"


(***************************************************************************)
(* The server's tool dispatcher: weather.py, WeatherService and            *)
(* handle_call_tool.  Texts are tuples of their parts (an f-string is the  *)
(* concatenation of its pieces); numbers inside texts are kept as strings. *)
(***************************************************************************)
None == "<None>"       \* Python's None; not a member of Locations

ToolNames == {"get_current_weather", "get_weather_forecast", "search_location", "bogus_tool"}
Locations == {"", "Bangkok"}
DaysValues == {-1, 0, 1, 7, 16, 17, 30}

\* The arguments mappings a call may carry
ArgumentMaps ==
    {<<>>}
    \cup {[location |-> l] : l \in Locations}
    \cup {[days |-> d] : d \in {0, 3}}
    \cup {[location |-> l, days |-> d] : l \in Locations, d \in DaysValues}

\* dict.get(key, default)
Get(d, key, default) == IF key \in DOMAIN d THEN d[key] ELSE default

\* "if location is None" in place of "if not location"
Truthy_is_not_None(v) == v # None

\* weather.py 147, 203, 242: Python truth value of the location argument
\* ("if not location")
Truthy(v) == v # None /\ v # ""

Min(a, b) == IF a <= b THEN a ELSE b
Max(a, b) == IF a >= b THEN a ELSE b

Ok(v) == [ok |-> TRUE, value |-> v]
Err(class, str) == [ok |-> FALSE, class |-> class, str |-> str]

\* The classes "except Exception" catches (every exception the handler's
\* calls can raise derives from Exception)
ExceptionClasses == {"ValueError", "KeyError", "IndexError", "ClientError"}

KeyError(key) == Err("KeyError", <<"'", key, "'">>)
IndexError == Err("IndexError", <<"list index out of range">>)

(* ------------------------- upstream responses -------------------------- *)
NetworkException == [kind |-> "exception", class |-> "ClientError",
                     str |-> <<"Cannot connect to host">>]
Http(status, json) == [kind |-> "http", status |-> status, json |-> json]

Candidates ==
    {[latitude |-> "13.7563", longitude |-> "100.5018", name |-> "Bangkok", country |-> "Thailand"],
     [latitude |-> "13.7563", longitude |-> "100.5018", country |-> "Thailand"],
     [latitude |-> "13.7563", longitude |-> "100.5018", name |-> "Bangkok"],
     [latitude |-> "13.7563", longitude |-> "100.5018"],
     [longitude |-> "100.5018", name |-> "Bangkok", country |-> "Thailand"]}

OtherCandidate == [latitude |-> "35.6895", longitude |-> "139.6917", name |-> "Tokyo", country |-> "Japan"]

GeocodingResponses ==
    {Http(200, [results |-> <<c>>]) : c \in Candidates}
    \cup {Http(200, [results |-> <<c, OtherCandidate>>]) : c \in Candidates}
    \cup {Http(200, [results |-> <<>>]), Http(200, [generationtime_ms |-> "0.5"]),
          Http(404, <<>>), Http(500, <<>>), NetworkException}

CurrentUnits ==
    [time |-> "iso8601", temperature_2m |-> "C", apparent_temperature |-> "C",
     relative_humidity_2m |-> "%", precipitation |-> "mm", wind_speed_10m |-> "km/h",
     wind_direction_10m |-> "deg", pressure_msl |-> "hPa", cloud_cover |-> "%"]

CurrentValues(is_day) ==
    [time |-> "2024-01-01T12:00", temperature_2m |-> "31.2", apparent_temperature |-> "36.0",
     relative_humidity_2m |-> "60", precipitation |-> "0.0", wind_speed_10m |-> "9.4",
     wind_direction_10m |-> "180", pressure_msl |-> "1009.1", cloud_cover |-> "40",
     is_day |-> is_day]

\* CurrentValues without the pressure_msl field
CurrentValuesNoPressure ==
    [time |-> "2024-01-01T12:00", temperature_2m |-> "31.2", apparent_temperature |-> "36.0",
     relative_humidity_2m |-> "60", precipitation |-> "0.0", wind_speed_10m |-> "9.4",
     wind_direction_10m |-> "180", cloud_cover |-> "40", is_day |-> 1]

CurrentResponses ==
    {Http(200, [current |-> CurrentValues(d), current_units |-> CurrentUnits]) : d \in {0, 1}}
    \cup {Http(200, [current |-> CurrentValuesNoPressure, current_units |-> CurrentUnits]),
          Http(200, [current |-> CurrentValues(1)]),
          Http(200, [error |-> "true"]),
          Http(429, <<>>), NetworkException}

DailyUnits ==
    [temperature_2m_max |-> "C", temperature_2m_min |-> "C",
     precipitation_sum |-> "mm", wind_speed_10m_max |-> "km/h"]

Daily(n) ==
    [time |-> SubSeq(<<"2024-01-01", "2024-01-02">>, 1, n),
     temperature_2m_max |-> SubSeq(<<"33.0", "34.1">>, 1, n),
     temperature_2m_min |-> SubSeq(<<"25.0", "26.2">>, 1, n),
     precipitation_sum |-> SubSeq(<<"0.0", "4.5">>, 1, n),
     wind_speed_10m_max |-> SubSeq(<<"12.0", "15.3">>, 1, n)]

\* two dates but one precipitation value
DailyShort == [Daily(2) EXCEPT !.precipitation_sum = <<"0.0">>]

ForecastResponses ==
    {Http(200, [daily |-> Daily(n), daily_units |-> DailyUnits]) : n \in 0..2}
    \cup {Http(200, [daily |-> DailyShort, daily_units |-> DailyUnits]),
          Http(200, [daily |-> Daily(1)]),
          Http(200, [error |-> "true"]),
          Http(400, <<>>), NetworkException}

(* ----------------------------- WeatherService -------------------------- *)
\* weather.py 30-35
GeocodingParams(location) ==
    [name |-> location, count |-> 1, language |-> "en", format |-> "json"]

\* get_coordinates reporting a status other than 200 the way get_forecast does
get_coordinates_status_error(location, response) ==
    IF response.kind = "exception" THEN Err(response.class, response.str)
    ELSE IF response.status # 200
    THEN Err("ValueError", <<"Failed to fetch location: ", ToString(response.status)>>)
    ELSE IF Get(response.json, "results", <<>>) # <<>>
    THEN LET result == response.json.results[1] IN
         IF "latitude" \notin DOMAIN result THEN KeyError("latitude")
         ELSE IF "longitude" \notin DOMAIN result THEN KeyError("longitude")
         ELSE Ok([latitude |-> result.latitude,
                  longitude |-> result.longitude,
                  name |-> Get(result, "name", location),
                  country |-> Get(result, "country", "")])
    ELSE Err("ValueError", <<"Location '", location, "' not found">>)

\* weather.py 37-48: get_coordinates, given the upstream response
get_coordinates(location, response) ==
    IF response.kind = "exception" THEN Err(response.class, response.str)
    ELSE IF response.status = 200
            /\ Get(response.json, "results", <<>>) # <<>>
    THEN LET result == response.json.results[1] IN
         IF "latitude" \notin DOMAIN result THEN KeyError("latitude")
         ELSE IF "longitude" \notin DOMAIN result THEN KeyError("longitude")
         ELSE Ok([latitude |-> result.latitude,
                  longitude |-> result.longitude,
                  name |-> Get(result, "name", location),
                  country |-> Get(result, "country", "")])
    ELSE Err("ValueError", <<"Location '", location, "' not found">>)

\* weather.py 53-58
CurrentParams(latitude, longitude) ==
    [latitude |-> latitude, longitude |-> longitude,
     current |-> "temperature_2m,relative_humidity_2m,apparent_temperature,is_day,precipitation,rain,showers,snowfall,weather_code,cloud_cover,pressure_msl,surface_pressure,wind_speed_10m,wind_direction_10m,wind_gusts_10m",
     timezone |-> "auto"]

\* weather.py 60-64: get_current_weather, given the upstream response
get_current_weather(response) ==
    IF response.kind = "exception" THEN Err(response.class, response.str)
    ELSE IF response.status = 200 THEN Ok(response.json)
    ELSE Err("ValueError", <<"Failed to fetch weather data: ", ToString(response.status)>>)

\* weather.py 74: the forecast_days parameter
ForecastDays(days) == Min(days, 16)

\* weather.py 69-75
ForecastParams(latitude, longitude, days) ==
    [latitude |-> latitude, longitude |-> longitude,
     daily |-> "weather_code,temperature_2m_max,temperature_2m_min,apparent_temperature_max,apparent_temperature_min,sunrise,sunset,precipitation_sum,rain_sum,showers_sum,snowfall_sum,precipitation_hours,wind_speed_10m_max,wind_gusts_10m_max,wind_direction_10m_dominant",
     timezone |-> "auto",
     forecast_days |-> ForecastDays(days)]

\* weather.py 77-81: get_forecast, given the upstream response
get_forecast(response) ==
    IF response.kind = "exception" THEN Err(response.class, response.str)
    ELSE IF response.status = 200 THEN Ok(response.json)
    ELSE Err("ValueError", <<"Failed to fetch forecast data: ", ToString(response.status)>>)

(* --------------------------- handle_call_tool -------------------------- *)
TextContent(text) == [type |-> "text", text |-> text]
HandlerReturn(text) == [kind |-> "return", content |-> <<TextContent(text)>>]
HandlerRaise(e) == [kind |-> "raise", content |-> <<>>, class |-> e.class, str |-> e.str]

LocationRequired == <<"Error: Location is required">>

\* weather.py 197, 238, 253: the text prefix of each tool's except clause
ErrorPrefix(name) ==
    CASE name = "get_current_weather" -> "Error getting weather: "
      [] name = "get_weather_forecast" -> "Error getting forecast: "
      [] OTHER -> "Error searching location: "

\* "except ValueError as e" in place of "except Exception as e"
Caught_only_ValueError(name, e) ==
    IF e.class = "ValueError"
    THEN HandlerReturn(<<ErrorPrefix(name)>> \o e.str)
    ELSE HandlerRaise(e)

\* weather.py 196-197, 237-238, 252-253: "except Exception as e" turns the
\* exception into a text content item
Caught(name, e) ==
    IF e.class \in ExceptionClasses
    THEN HandlerReturn(<<ErrorPrefix(name)>> \o e.str)
    ELSE HandlerRaise(e)

\* weather.py 169-179: the fields read from "current" and "current_units",
\* in the order the dict literal reads them (after "time", before "is_day")
CurrentFields ==
    <<"temperature_2m", "apparent_temperature", "relative_humidity_2m", "precipitation",
      "wind_speed_10m", "wind_direction_10m", "pressure_msl", "cloud_cover">>

\* weather.py 159-194: the text of get_current_weather, or the KeyError of
\* the first missing field
FormatCurrent(coords, weather_data) ==
    IF "current" \notin DOMAIN weather_data THEN KeyError("current")
    ELSE IF "current_units" \notin DOMAIN weather_data THEN KeyError("current_units")
    ELSE
      LET current == weather_data.current
          current_units == weather_data.current_units
          missing == {i \in 1..Len(CurrentFields) :
                         \/ CurrentFields[i] \notin DOMAIN current
                         \/ CurrentFields[i] \notin DOMAIN current_units}
          first == CHOOSE i \in missing : \A j \in missing : i <= j
          v(k) == current[k]
          u(k) == current_units[k]
      IN
      IF "time" \notin DOMAIN current THEN KeyError("time")
      ELSE IF missing # {} THEN KeyError(CurrentFields[first])
      ELSE IF "is_day" \notin DOMAIN current THEN KeyError("is_day")
      ELSE Ok(<<"Current weather for ", coords.name, ", ", coords.country, ":\n",
                "Temperature: ", v("temperature_2m"), u("temperature_2m"),
                " (feels like ", v("apparent_temperature"), u("apparent_temperature"), ")\n",
                "Humidity: ", v("relative_humidity_2m"), u("relative_humidity_2m"), "\n",
                "Wind: ", v("wind_speed_10m"), u("wind_speed_10m"), " at ",
                v("wind_direction_10m"), u("wind_direction_10m"), "deg\n",
                "Pressure: ", v("pressure_msl"), u("pressure_msl"), "\n",
                "Cloud Cover: ", v("cloud_cover"), u("cloud_cover"), "\n",
                "Precipitation: ", v("precipitation"), u("precipitation"), "\n",
                "Time of Day: ", IF current.is_day # 0 THEN "Day" ELSE "Night", "\n\n",
                "Data from Open-Meteo API">>)

\* weather.py 222-226: the per-day lists read in each iteration, in order
DailyFields ==
    <<"time", "temperature_2m_max", "temperature_2m_min", "precipitation_sum",
      "wind_speed_10m_max">>

\* weather.py 229-231: the units read in each iteration, in order
DailyUnitFields ==
    <<"temperature_2m_max", "temperature_2m_min", "precipitation_sum", "wind_speed_10m_max">>

\* weather.py 221-231: the loop over the days, from day i on
RECURSIVE ForecastLoop(_, _, _, _)
ForecastLoop(daily, daily_units, i, forecast_text) ==
    IF i > Len(daily.time) THEN Ok(forecast_text)
    ELSE
      LET nokey == {k \in 2..Len(DailyFields) : DailyFields[k] \notin DOMAIN daily}
          bad == {k \in 2..Len(DailyFields) :
                     \/ DailyFields[k] \notin DOMAIN daily
                     \/ Len(daily[DailyFields[k]]) < i}
          firstbad == CHOOSE k \in bad : \A j \in bad : k <= j
          nounit == {k \in 1..Len(DailyUnitFields) : DailyUnitFields[k] \notin DOMAIN daily_units}
          firstunit == CHOOSE k \in nounit : \A j \in nounit : k <= j
      IN
      IF bad # {}
      THEN IF firstbad \in nokey THEN KeyError(DailyFields[firstbad]) ELSE IndexError
      ELSE IF nounit # {} THEN KeyError(DailyUnitFields[firstunit])
      ELSE ForecastLoop(daily, daily_units, i + 1,
             forecast_text \o
             <<"date ", daily.time[i], ":\n",
               "  High: ", daily.temperature_2m_max[i], daily_units.temperature_2m_max,
               ", Low: ", daily.temperature_2m_min[i], daily_units.temperature_2m_min, "\n",
               "  Precipitation: ", daily.precipitation_sum[i], daily_units.precipitation_sum, "\n",
               "  Max Wind: ", daily.wind_speed_10m_max[i], daily_units.wind_speed_10m_max, "\n\n">>)

\* weather.py 215-235: the text of get_weather_forecast, or the exception
\* raised while building it
FormatForecast(coords, days, forecast_data) ==
    IF "daily" \notin DOMAIN forecast_data THEN KeyError("daily")
    ELSE IF "daily_units" \notin DOMAIN forecast_data THEN KeyError("daily_units")
    ELSE IF "time" \notin DOMAIN forecast_data.daily THEN KeyError("time")
    ELSE
      LET loop == ForecastLoop(forecast_data.daily, forecast_data.daily_units, 1,
                     <<"Weather forecast for ", coords.name, ", ", coords.country,
                       " (", ToString(days), " days):\n\n">>)
      IN IF loop.ok THEN Ok(loop.value \o <<"Data from Open-Meteo API">>) ELSE loop

\* weather.py 247-248
FormatLocation(coords) ==
    <<"Location: ", coords.name, ", ", coords.country, "\n",
      "Coordinates: ", coords.latitude, ", ", coords.longitude>>

UpstreamCall(endpoint, params) == [endpoint |-> endpoint, params |-> params]

\* weather.py 145-152, 199-208, 240-246, 255-256: handle_call_tool up to its
\* first await (the geocoding call), or to its return when it makes none
HandleCallTool(name, arguments) ==
    LET location == Get(arguments, "location", None)
        days == IF name = "get_weather_forecast" THEN Get(arguments, "days", 7) ELSE 0
        base == [ToolIdle EXCEPT !.name = name, !.arguments = arguments, !.days = days]
    IN
    /\ tool.hpc \in {"idle", "done"}
    /\ tool' =
         IF name \in {"get_current_weather", "get_weather_forecast", "search_location"}
         THEN IF ~Truthy(location)
              THEN [base EXCEPT !.hpc = "done", !.result = HandlerReturn(LocationRequired)]
              ELSE [base EXCEPT !.hpc = "geocoding", !.location = location,
                                !.calls = <<UpstreamCall("geocoding", GeocodingParams(location))>>]
         ELSE [base EXCEPT !.hpc = "done", !.result = HandlerReturn(<<"Unknown tool: ", name>>)]
    /\ UNCHANGED clientVars

\* handle_call_tool asking the geocoding endpoint once more when
\* get_coordinates raised, before giving up
GeocodingDone_retry_once(response) ==
    LET r == get_coordinates(tool.location, response)
        got == [tool EXCEPT !.geo = response]
    IN
    /\ tool.hpc = "geocoding"
    /\ tool' =
         IF ~r.ok /\ Len(tool.calls) < 2
         THEN [got EXCEPT !.calls = Append(@, UpstreamCall("geocoding",
                                               GeocodingParams(tool.location)))]
         ELSE IF ~r.ok
         THEN [got EXCEPT !.hpc = "done", !.result = Caught(tool.name, r)]
         ELSE IF tool.name = "search_location"
         THEN [got EXCEPT !.hpc = "done", !.coords = r.value,
                          !.result = HandlerReturn(FormatLocation(r.value))]
         ELSE [got EXCEPT !.hpc = "fetching", !.coords = r.value,
                 !.calls = Append(@, UpstreamCall("forecast",
                    IF tool.name = "get_current_weather"
                    THEN CurrentParams(r.value.latitude, r.value.longitude)
                    ELSE ForecastParams(r.value.latitude, r.value.longitude, tool.days)))]
    /\ UNCHANGED clientVars

\* weather.py 152-157, 208-213, 246-250: get_coordinates returns or raises,
\* and the handler goes on to its second upstream call or to its return
GeocodingDone(response) ==
    LET r == get_coordinates(tool.location, response)
        got == [tool EXCEPT !.geo = response]
    IN
    /\ tool.hpc = "geocoding"
    /\ tool' =
         IF ~r.ok
         THEN [got EXCEPT !.hpc = "done", !.result = Caught(tool.name, r)]
         ELSE IF tool.name = "search_location"
         THEN [got EXCEPT !.hpc = "done", !.coords = r.value,
                          !.result = HandlerReturn(FormatLocation(r.value))]
         ELSE [got EXCEPT !.hpc = "fetching", !.coords = r.value,
                 !.calls = Append(@, UpstreamCall("forecast",
                    IF tool.name = "get_current_weather"
                    THEN CurrentParams(r.value.latitude, r.value.longitude)
                    ELSE ForecastParams(r.value.latitude, r.value.longitude, tool.days)))]
    /\ UNCHANGED clientVars

\* weather.py 155-197: the current-weather call returns or raises, and the
\* handler formats the text
CurrentDone(response) ==
    LET r == get_current_weather(response)
        f == FormatCurrent(tool.coords, r.value)
        got == [tool EXCEPT !.fetched = response, !.hpc = "done"]
    IN
    /\ tool.hpc = "fetching"
    /\ tool.name = "get_current_weather"
    /\ tool' =
         IF ~r.ok THEN [got EXCEPT !.result = Caught(tool.name, r)]
         ELSE IF ~f.ok THEN [got EXCEPT !.result = Caught(tool.name, f)]
         ELSE [got EXCEPT !.result = HandlerReturn(f.value)]
    /\ UNCHANGED clientVars

\* weather.py 211-238: the forecast call returns or raises, and the handler
\* formats the text
ForecastDone(response) ==
    LET r == get_forecast(response)
        f == FormatForecast(tool.coords, tool.days, r.value)
        got == [tool EXCEPT !.fetched = response, !.hpc = "done"]
    IN
    /\ tool.hpc = "fetching"
    /\ tool.name = "get_weather_forecast"
    /\ tool' =
         IF ~r.ok THEN [got EXCEPT !.result = Caught(tool.name, r)]
         ELSE IF ~f.ok THEN [got EXCEPT !.result = Caught(tool.name, f)]
         ELSE [got EXCEPT !.result = HandlerReturn(f.value)]
    /\ UNCHANGED clientVars

ToolNext ==
    \/ \E name \in ToolNames, arguments \in ArgumentMaps : HandleCallTool(name, arguments)
    \/ \E response \in GeocodingResponses : GeocodingDone(response)
    \/ \E response \in CurrentResponses : CurrentDone(response)
    \/ \E response \in ForecastResponses : ForecastDone(response)

ToolSpec == Init /\ [][ToolNext]_vars

(***************************************************************************)
(* Properties of handle_call_tool (checked under ToolSpec)                 *)
(***************************************************************************)
WeatherTools == {"get_current_weather", "get_weather_forecast", "search_location"}

\* The location argument is absent or empty
NoLocation(arguments) == "location" \notin DOMAIN arguments \/ arguments.location = ""

\* The geocoding response holds no usable candidate
NoCandidates(response) ==
    /\ response.kind = "http"
    /\ response.status = 200
    /\ \/ "results" \notin DOMAIN response.json
       \/ response.json.results = <<>>

NotOk(response) == response.kind = "http" /\ response.status # 200

\* Upstream payloads with every field the handler reads
CompletePayloads ==
    {[current |-> CurrentValues(d), current_units |-> CurrentUnits] : d \in {0, 1}}
    \cup {[daily |-> Daily(n), daily_units |-> DailyUnits] : n \in 1..2}
    \cup {[daily |-> Daily(0), daily_units |-> DailyUnits]}

\* The invocation met a domain-level problem
DomainProblem ==
    \/ tool.name \notin WeatherTools
    \/ NoLocation(tool.arguments)
    \/ tool.geo.kind = "exception"
    \/ NotOk(tool.geo)
    \/ NoCandidates(tool.geo)
    \/ (tool.geo.kind = "http" /\ tool.coords = <<>>)
    \/ tool.fetched.kind = "exception"
    \/ NotOk(tool.fetched)
    \/ (tool.fetched.kind = "http" /\ tool.fetched.json \notin CompletePayloads)

\* A text that reports a problem: one of the handler's error openings,
\* followed (but for the missing location) by what went wrong
ProblemText(text) ==
    \/ text = <<"Error: Location is required">>
    \/ /\ Len(text) >= 2
       /\ text[1] \in {"Unknown tool: ", "Error getting weather: ",
                       "Error getting forecast: ", "Error searching location: "}

\* C6: whatever the tool name, the arguments and the outcome of the upstream
\* calls, handle_call_tool returns (never raises) a list of exactly one text
\* content item, and on a domain-level problem its text describes the problem.
C6_DomainProblemsBecomeText ==
    tool.hpc = "done" =>
        /\ tool.result.kind = "return"
        /\ Len(tool.result.content) = 1
        /\ tool.result.content[1].type = "text"
        /\ DomainProblem <=> ProblemText(tool.result.content[1].text)

\* C6 witness: the forecast payload lacked the fields the handler reads
\* (a KeyError inside the handler) and the call ended.
C6_Witness ==
    /\ tool.hpc = "done"
    /\ tool.name = "get_weather_forecast"
    /\ tool.fetched = Http(200, [error |-> "true"])
    /\ tool.result.kind = "return"

\* C7: for each of the three tools, when location is absent or empty the
\* result is exactly the text "Error: Location is required" and no upstream
\* call is issued.
C7_LocationRequired ==
    (tool.name \in WeatherTools /\ NoLocation(tool.arguments)) =>
        /\ tool.hpc = "done"
        /\ tool.result = [kind |-> "return",
                          content |-> <<[type |-> "text",
                                         text |-> <<"Error: Location is required">>]>>]
        /\ tool.calls = <<>>

\* C7 witness: get_weather_forecast was called with an empty location.
C7_Witness ==
    /\ tool.hpc = "done"
    /\ tool.name = "get_weather_forecast"
    /\ tool.arguments = [location |-> "", days |-> 7]

\* C8: the forecast_days sent upstream is days clamped to [1, 16].
C8_ForecastDaysClamped ==
    \A i \in 1..Len(tool.calls) :
        "forecast_days" \in DOMAIN tool.calls[i].params =>
            tool.calls[i].params.forecast_days = Max(1, Min(16, tool.days))

\* The text "Location '<input>' not found"
NotFoundText(location) == <<"Location '", location, "' not found">>

\* C9: a geocoding response with status 200 and no candidates and one with
\* another status both end the tool call with a text content item naming the
\* input in "Location '<input>' not found" (never a raised error); a response
\* with a candidate yields the first candidate's latitude and longitude, its
\* name or else the input text, its country or else the empty string.
C9_LocationNotFound ==
    /\ (NoCandidates(tool.geo) \/ NotOk(tool.geo)) =>
          /\ tool.hpc = "done"
          /\ tool.result.kind = "return"
          /\ Len(tool.result.content) = 1
          /\ tool.result.content[1].text =
                <<ErrorPrefix(tool.name)>> \o NotFoundText(tool.arguments.location)
          /\ Len(tool.calls) = 1
    /\ tool.coords # <<>> =>
          LET first == tool.geo.json.results[1] IN
          /\ tool.coords.latitude = first.latitude
          /\ tool.coords.longitude = first.longitude
          /\ tool.coords.name = IF "name" \in DOMAIN first THEN first.name
                                ELSE tool.arguments.location
          /\ tool.coords.country = IF "country" \in DOMAIN first THEN first.country
                                   ELSE ""

\* C9 witness: the geocoding endpoint answered 500 to get_current_weather.
C9_Witness ==
    /\ tool.name = "get_current_weather"
    /\ tool.geo = Http(500, <<>>)
    /\ tool.hpc = "done"

\* The upstream call whose response the handler has received and that raised
\* out of its WeatherService method
GeocodingFailed ==
    tool.geo # NoResponse
    /\ ~(/\ tool.geo.kind = "http"
         /\ tool.geo.status = 200
         /\ "results" \in DOMAIN tool.geo.json
         /\ tool.geo.json.results # <<>>
         /\ {"latitude", "longitude"} \subseteq DOMAIN tool.geo.json.results[1])

FetchFailed ==
    tool.fetched # NoResponse
    /\ ~(tool.fetched.kind = "http" /\ tool.fetched.status = 200)

\* The upstream calls issued and not yet answered
Pending == IF tool.hpc \in {"geocoding", "fetching"} THEN 1 ELSE 0
Answered == (IF tool.geo # NoResponse THEN 1 ELSE 0)
            + (IF tool.fetched # NoResponse THEN 1 ELSE 0)

\* C12: within one handle_call_tool invocation the upstream calls are strictly
\* sequential and at most two: the geocoding call comes first, the
\* current-weather or forecast call is issued only after the geocoding call
\* succeeded with a candidate, search_location issues only the geocoding call,
\* and no call is repeated after a failure (one failed call ends the tool call
\* with an error text).
C12_UpstreamCallsSequential ==
    /\ Len(tool.calls) <= 2
    /\ Len(tool.calls) = Answered + Pending
    /\ Len(tool.calls) >= 1 =>
          tool.calls[1] = UpstreamCall("geocoding", GeocodingParams(tool.location))
    /\ Len(tool.calls) = 2 =>
          /\ tool.calls[2].endpoint = "forecast"
          /\ tool.name \in {"get_current_weather", "get_weather_forecast"}
          /\ tool.geo # NoResponse
          /\ ~GeocodingFailed
          /\ tool.calls[2].params.latitude = tool.geo.json.results[1].latitude
          /\ tool.calls[2].params.longitude = tool.geo.json.results[1].longitude
    /\ tool.name = "search_location" => Len(tool.calls) <= 1
    /\ GeocodingFailed =>
          /\ tool.hpc = "done"
          /\ Len(tool.calls) = 1
          /\ tool.result.kind = "return"
          /\ ProblemText(tool.result.content[1].text)
    /\ FetchFailed =>
          /\ tool.hpc = "done"
          /\ Len(tool.calls) = 2
          /\ tool.result.kind = "return"
          /\ ProblemText(tool.result.content[1].text)

\* C12 witness: a forecast invocation whose geocoding call gave a candidate
\* and whose forecast call failed ended with an error text after two calls.
C12_Witness ==
    /\ tool.hpc = "done"
    /\ tool.name = "get_weather_forecast"
    /\ Len(tool.calls) = 2
    /\ tool.calls[1].endpoint = "geocoding"
    /\ tool.calls[2].endpoint = "forecast"
    /\ tool.fetched = Http(400, <<>>)
    /\ tool.result.content[1].text[1] = "Error getting forecast: "

====
